---- MODULE Spec2Model ----
(***************************************************************************)
(* Model of the analytics service (src/analytics/app.py): one DuckDB       *)
(* connection shared by every handler, the schema created at startup, two  *)
(* insert endpoints, the per-user and the system-wide analytics queries.   *)
(*                                                                         *)
(* Conventions                                                             *)
(*   - NULL is Python's None / SQL NULL / a JSON field that is absent, for *)
(*     text values.  A nullable number is <<>> (NULL) or <<n>>; the same   *)
(*     encoding is used for the numbers of a JSON response, so that a NULL *)
(*     reaching the caller is a value the model can show.                  *)
(*   - Time is counted in ticks, TicksPerDay of them per calendar day; a   *)
(*     TIMESTAMP is a tick, a DATE is the tick of its midnight.  All       *)
(*     timestamps live in one time zone.                                   *)
(*   - duration_seconds are whole seconds; an average is kept exact, as    *)
(*     a reduced fraction, and round(x, 2) yields hundredths of a second.  *)
(*   - the column id (a fresh random UUID per row) is not modelled: no     *)
(*     statement of the program reads it.  ai_service, metadata and        *)
(*     transaction_id are stored with the row and read by no query; the    *)
(*     inputs leave them absent.                                           *)
(*   - `last` and `acked` record what the clients were told: the last      *)
(*     exchange, and the inserts answered 200.                             *)
(***************************************************************************)
EXTENDS Integers, Sequences, FiniteSets, Bags, TLC

VARIABLES
    db,       \* conn's database: table name -> sequence of rows (tables that exist)
    now,      \* the wall clock, in ticks
    pending,  \* bag of requests received and not yet handled by the event loop
    acked,    \* bag of insert requests answered 200
    last,     \* the last request handled, with its response and the time it was served
    boots     \* number of times the startup hook has run

vars == <<db, now, pending, acked, last, boots>>

----------------------------------------------------------------------------
(* Bounds of the model *)

TicksPerDay == 2
EarlyTicks == 1
MaxBoots == 2
MaxInflight == 3
MaxConcRows == 3
MaxDocRows == 2
MaxChainRows == 1
MaxWindowRows == 2
MaxTypeRows == 4
MaxAvgRows == 3

(* Program constants *)

RECENT_DAYS == 30
TREND_DAYS == 7
RECENT_LIMIT == 30

----------------------------------------------------------------------------
(* Values *)

NULL == "<null>"

U1 == "00000000-0000-0000-0000-000000000001"
U2 == "00000000-0000-0000-0000-000000000002"
U3 == "00000000-0000-0000-0000-000000000003"
Malformed == "not-a-uuid"

\* The strings of the model that DuckDB parses as a UUID.
UUIDs == {U1, U2, U3}

Tables == {"document_events", "blockchain_events", "user_sessions"}

Days(n) == n * TicksPerDay

\* DATE_TRUNC('day', t): the midnight at or before t.
DateTrunc(t) == (t \div TicksPerDay) * TicksPerDay

\* CURRENT_DATE at wall-clock time t.
CurrentDate(t) == DateTrunc(t)

RECURSIVE SumSeq(_)
SumSeq(s) == IF s = <<>> THEN 0 ELSE Head(s) + SumSeq(Tail(s))

RECURSIVE CopiesOf(_, _)
\* The number of elements of the set S, with their multiplicity, in bag B.
CopiesOf(S, B) ==
    IF S = {} THEN 0
    ELSE LET x == CHOOSE y \in S : TRUE
         IN  CopiesIn(x, B) + CopiesOf(S \ {x}, B)

\* The sequences listing every element of the finite set S exactly once.
Orderings(S) ==
    {s \in [1 .. Cardinality(S) -> S] :
        \A i, j \in 1 .. Cardinality(S) : i # j => s[i] # s[j]}

Take(s, n) == IF Len(s) <= n THEN s ELSE SubSeq(s, 1, n)

----------------------------------------------------------------------------
(* The store: schema and inserts *)

CreateOrReplaceTable(d, t) ==
    [x \in (DOMAIN d) \cup {t} |-> IF x = t THEN <<>> ELSE d[x]]

\* CREATE TABLE IF NOT EXISTS t
CreateTableIfNotExists(d, t) ==
    IF t \in DOMAIN d
    THEN d
    ELSE [x \in (DOMAIN d) \cup {t} |-> IF x = t THEN <<>> ELSE d[x]]

\* init_database(): the three CREATE TABLE IF NOT EXISTS statements, in order.
init_database(d) ==
    CreateTableIfNotExists(
        CreateTableIfNotExists(
            CreateTableIfNotExists(d, "document_events"),
            "blockchain_events"),
        "user_sessions")

\* A VARCHAR parameter bound to a UUID column or compared with one is cast to
\* UUID; the cast of a string that is no UUID raises a conversion error.
CastsToUUID(s) == s \in UUIDs

\* A nullable UUID column accepts NULL.
CastsToNullableUUID(s) == s = NULL \/ CastsToUUID(s)

\* pydantic: the required str fields of DocumentEvent must be present and not None.
ValidDocumentEvent(e) ==
    /\ e.user_id # NULL
    /\ e.event_type # NULL
    /\ e.status # NULL

\* pydantic: the required str fields of BlockchainEvent.
ValidBlockchainEvent(e) ==
    /\ e.user_id # NULL
    /\ e.network # NULL
    /\ e.transaction_type # NULL
    /\ e.status # NULL

\* The INSERT statement of record_document_event succeeds.
DocumentInsertOk(d, e) ==
    /\ "document_events" \in DOMAIN d
    /\ CastsToUUID(e.user_id)
    /\ CastsToNullableUUID(e.document_id)

\* The INSERT statement of record_blockchain_event succeeds.
BlockchainInsertOk(d, e) ==
    /\ "blockchain_events" \in DOMAIN d
    /\ CastsToUUID(e.user_id)
    /\ CastsToNullableUUID(e.document_id)

\* The row INSERT INTO document_events stores: created_at DEFAULT CURRENT_TIMESTAMP.
DocumentRow(e, t) ==
    [user_id |-> e.user_id, document_id |-> e.document_id,
     event_type |-> e.event_type, document_type |-> e.document_type,
     ai_service |-> e.ai_service, duration_seconds |-> e.duration_seconds,
     status |-> e.status, metadata |-> e.metadata, created_at |-> t]

\* The row INSERT INTO blockchain_events stores.
BlockchainRow(e, t) ==
    [user_id |-> e.user_id, document_id |-> e.document_id,
     transaction_id |-> e.transaction_id, network |-> e.network,
     transaction_type |-> e.transaction_type,
     duration_seconds |-> e.duration_seconds, status |-> e.status,
     gas_used |-> e.gas_used, metadata |-> e.metadata, created_at |-> t]

InsertRowTwice(d, t, row) == [d EXCEPT ![t] = Append(Append(@, row), row)]

OverwriteRow(d, t, row) ==
    [d EXCEPT ![t] = IF @ = <<>> THEN <<row>> ELSE SubSeq(@, 1, Len(@) - 1) \o <<row>>]

\* One INSERT of one row: a single atomic statement on the shared connection.
InsertRow(d, t, row) == [d EXCEPT ![t] = Append(@, row)]

----------------------------------------------------------------------------
(* SQL aggregates *)

RECURSIVE GCD(_, _)
GCD(a, b) == IF b = 0 THEN a ELSE GCD(b, a % b)

\* The exact value s / n of a DOUBLE, as a reduced fraction.
Ratio(s, n) ==
    LET g == IF s = 0 THEN n ELSE GCD(s, n)
    IN  [num |-> s \div g, den |-> n \div g]

\* COUNT(*) of a row set: never NULL.
Count(rows) == <<Len(rows)>>

AvgOverAllRows(rows) ==
    LET vals == SelectSeq(rows, LAMBDA r : r.duration_seconds # <<>>)
    IN  IF rows = <<>>
        THEN <<>>
        ELSE <<Ratio(SumSeq([i \in 1 .. Len(vals) |-> vals[i].duration_seconds[1]]),
                     Len(rows))>>

\* AVG(duration_seconds): NULL values take no part; NULL when no value is left.
Avg(rows) ==
    LET vals == SelectSeq(rows, LAMBDA r : r.duration_seconds # <<>>)
    IN  IF vals = <<>>
        THEN <<>>
        ELSE <<Ratio(SumSeq([i \in 1 .. Len(vals) |-> vals[i].duration_seconds[1]]),
                     Len(vals))>>

\* SUM(gas_used): NULL values take no part; NULL when no value is left.
SumGas(rows) ==
    LET vals == SelectSeq(rows, LAMBDA r : r.gas_used # <<>>)
    IN  IF vals = <<>>
        THEN <<>>
        ELSE <<SumSeq([i \in 1 .. Len(vals) |-> vals[i].gas_used[1]])>>

----------------------------------------------------------------------------
(* Python at the response boundary *)

KeepNull(x) == x

\* `x or 0` on a count or a sum: None and 0 both give 0.
OrZero(x) == IF x = <<>> THEN <<0>> ELSE x

\* `x or 0` on an average: None and 0.0 both give 0.
AvgOrZero(a) == IF a = <<>> THEN [num |-> 0, den |-> 1] ELSE a[1]

\* round(q, 2), in hundredths: to the nearest hundredth, a tie to the even one.
\* (Python rounds the binary double; the two agree whenever q is no tie or is a
\* tie that a double holds exactly, which covers every average of fewer than 40
\* whole-second durations.)
RoundHundredths(q) ==
    LET m == 100 * q.num
        f == m \div q.den
        r == m % q.den
    IN  IF 2 * r < q.den THEN f
        ELSE IF 2 * r > q.den THEN f + 1
        ELSE IF f % 2 = 0 THEN f ELSE f + 1

----------------------------------------------------------------------------
(* The queries of get_user_analytics *)

doc_stats_all_users(d, u) ==
    LET rows == d["document_events"]
    IN  [total_documents |-> Count(rows),
         successful_documents |-> Count(SelectSeq(rows, LAMBDA r : r.status = "success")),
         failed_documents |-> Count(SelectSeq(rows, LAMBDA r : r.status = "error")),
         avg_generation_time |-> Avg(rows),
         status_changes |->
            Count(SelectSeq(rows, LAMBDA r : r.event_type = "status_change"))]

\* Document statistics: one row, always.
doc_stats(d, u) ==
    LET rows == SelectSeq(d["document_events"], LAMBDA r : r.user_id = u)
    IN  [total_documents |-> Count(rows),
         successful_documents |-> Count(SelectSeq(rows, LAMBDA r : r.status = "success")),
         failed_documents |-> Count(SelectSeq(rows, LAMBDA r : r.status = "error")),
         avg_generation_time |-> Avg(rows),
         status_changes |->
            Count(SelectSeq(rows, LAMBDA r : r.event_type = "status_change"))]

doc_types_ascending(d, u) ==
    LET rows == SelectSeq(d["document_events"], LAMBDA r : r.user_id = u /\ r.document_type # NULL)
        types == {rows[i].document_type : i \in 1 .. Len(rows)}
        groups == {[document_type |-> ty,
                    count |-> Len(SelectSeq(rows, LAMBDA r : r.document_type = ty))] :
                   ty \in types}
    IN  {s \in Orderings(groups) :
            \A i, j \in 1 .. Len(s) : i < j => s[i].count <= s[j].count}

\* Document type distribution: GROUP BY document_type ORDER BY count DESC.  The
\* statement orders by count alone, so every listing of the groups in which the
\* counts do not increase is a result the engine may return.
doc_types(d, u) ==
    LET rows == SelectSeq(d["document_events"], LAMBDA r : r.user_id = u /\ r.document_type # NULL)
        types == {rows[i].document_type : i \in 1 .. Len(rows)}
        groups == {[document_type |-> ty,
                    count |-> Len(SelectSeq(rows, LAMBDA r : r.document_type = ty))] :
                   ty \in types}
    IN  {s \in Orderings(groups) :
            \A i, j \in 1 .. Len(s) : i < j => s[i].count >= s[j].count}

recent_activity_from_now(d, u, t) ==
    LET rows == SelectSeq(d["document_events"], LAMBDA r : r.user_id = u
                                 /\ r.created_at >= t - Days(RECENT_DAYS))
        keys == {<<rows[i].event_type, DateTrunc(rows[i].created_at)>> :
                 i \in 1 .. Len(rows)}
        groups == {[event_type |-> k[1],
                    count |-> Len(SelectSeq(rows,
                                 LAMBDA r : r.event_type = k[1]
                                            /\ DateTrunc(r.created_at) = k[2])),
                    date |-> k[2]] : k \in keys}
    IN  {Take(s, RECENT_LIMIT) : s \in
            {s \in Orderings(groups) :
                \A i, j \in 1 .. Len(s) : i < j => s[i].date >= s[j].date}}

\* Recent activity: created_at >= CURRENT_DATE - INTERVAL '30 days', GROUP BY
\* event_type and day, ORDER BY date DESC LIMIT 30.  Groups of one day come in
\* any order, and LIMIT cuts whatever order the engine produced.
recent_activity(d, u, t) ==
    LET rows == SelectSeq(d["document_events"], LAMBDA r : r.user_id = u
                                 /\ r.created_at >= CurrentDate(t) - Days(RECENT_DAYS))
        keys == {<<rows[i].event_type, DateTrunc(rows[i].created_at)>> :
                 i \in 1 .. Len(rows)}
        groups == {[event_type |-> k[1],
                    count |-> Len(SelectSeq(rows,
                                 LAMBDA r : r.event_type = k[1]
                                            /\ DateTrunc(r.created_at) = k[2])),
                    date |-> k[2]] : k \in keys}
    IN  {Take(s, RECENT_LIMIT) : s \in
            {s \in Orderings(groups) :
                \A i, j \in 1 .. Len(s) : i < j => s[i].date >= s[j].date}}

\* Blockchain statistics: one row, always.
blockchain_stats(d, u) ==
    LET rows == SelectSeq(d["blockchain_events"], LAMBDA r : r.user_id = u)
    IN  [total_transactions |-> Count(rows),
         successful_transactions |-> Count(SelectSeq(rows, LAMBDA r : r.status = "success")),
         avg_transaction_time |-> Avg(rows),
         total_gas_used |-> SumGas(rows)]

\* Performance trend: the last 7 days, GROUP BY day ORDER BY date.
performance_trend(d, u, t) ==
    LET rows == SelectSeq(d["document_events"], LAMBDA r : r.user_id = u
                                 /\ r.created_at >= CurrentDate(t) - Days(TREND_DAYS))
        dates == {DateTrunc(rows[i].created_at) : i \in 1 .. Len(rows)}
        groups == {[date |-> dt,
                    avg_duration |->
                        Avg(SelectSeq(rows, LAMBDA r : DateTrunc(r.created_at) = dt)),
                    event_count |->
                        Len(SelectSeq(rows, LAMBDA r : DateTrunc(r.created_at) = dt))] :
                   dt \in dates}
    IN  {s \in Orderings(groups) :
            \A i, j \in 1 .. Len(s) : i < j => s[i].date <= s[j].date}

\* The response of get_user_analytics built from the five results.
UserAnalyticsBody(u, ds, dt, ra, bs, pt) ==
    [user_id |-> u,
     documents |->
        [total |-> OrZero(ds.total_documents),
         successful |-> OrZero(ds.successful_documents),
         failed |-> OrZero(ds.failed_documents),
         avg_generation_time |-> <<RoundHundredths(AvgOrZero(ds.avg_generation_time))>>,
         status_changes |-> OrZero(ds.status_changes)],
     document_types |->
        [i \in 1 .. Len(dt) |-> [type |-> dt[i].document_type, count |-> dt[i].count]],
     recent_activity |->
        [i \in 1 .. Len(ra) |->
            [event_type |-> ra[i].event_type, count |-> ra[i].count, date |-> ra[i].date]],
     blockchain |->
        [total_transactions |-> OrZero(bs.total_transactions),
         successful_transactions |-> OrZero(bs.successful_transactions),
         avg_transaction_time |-> <<RoundHundredths(AvgOrZero(bs.avg_transaction_time))>>,
         total_gas_used |-> OrZero(bs.total_gas_used)],
     performance_trend |->
        [i \in 1 .. Len(pt) |->
            [date |-> pt[i].date,
             avg_duration |-> <<RoundHundredths(AvgOrZero(pt[i].avg_duration))>>,
             event_count |-> pt[i].event_count]]]

\* get_user_analytics at time t: the responses the handler may return.
get_user_analytics(d, u, t) ==
    IF \/ ~ CastsToUUID(u)
       \/ ~ {"document_events", "blockchain_events"} \subseteq DOMAIN d
    THEN {[status |-> 500, body |-> [detail |-> "Conversion Error"]]}
    ELSE {[status |-> 200,
           body |-> UserAnalyticsBody(u, doc_stats(d, u), dt, ra,
                                      blockchain_stats(d, u), pt)] :
          dt \in doc_types(d, u), ra \in recent_activity(d, u, t),
          pt \in performance_trend(d, u, t)}

----------------------------------------------------------------------------
(* The query of get_system_analytics *)

\* The five scalar subqueries.
system_stats(d) ==
    LET docs == d["document_events"]
        txs == d["blockchain_events"]
    IN  [total_users |-> <<Cardinality({docs[i].user_id : i \in 1 .. Len(docs)})>>,
         total_documents |->
            Count(SelectSeq(docs, LAMBDA r : r.event_type = "generation")),
         total_transactions |-> Count(txs),
         avg_doc_time |->
            Avg(SelectSeq(docs, LAMBDA r : r.event_type = "generation"
                                           /\ r.status = "success")),
         avg_blockchain_time |->
            Avg(SelectSeq(txs, LAMBDA r : r.status = "success"))]

\* get_system_analytics: averages are returned as computed, not rounded.
get_system_analytics(d) ==
    IF ~ {"document_events", "blockchain_events"} \subseteq DOMAIN d
    THEN [status |-> 500, body |-> [detail |-> "Catalog Error"]]
    ELSE LET s == system_stats(d)
         IN  [status |-> 200,
              body |-> [total_users |-> OrZero(s.total_users),
                        total_documents |-> OrZero(s.total_documents),
                        total_transactions |-> OrZero(s.total_transactions),
                        avg_document_generation_time |-> <<AvgOrZero(s.avg_doc_time)>>,
                        avg_blockchain_transaction_time |->
                            <<AvgOrZero(s.avg_blockchain_time)>>]]

\* health_check
health_check == [status |-> 200, body |-> [status |-> "OK", service |-> "analytics"]]

----------------------------------------------------------------------------
(* Requests and the handlers *)

DocumentRequest(e) == [op |-> "record_document_event", param |-> e]
BlockchainRequest(e) == [op |-> "record_blockchain_event", param |-> e]
UserRequest(u) == [op |-> "get_user_analytics", param |-> u]
SystemRequest == [op |-> "get_system_analytics", param |-> NULL]
HealthRequest == [op |-> "health_check", param |-> NULL]

\* The exchange the server completes at the current time.
Respond(req, code, body) ==
    last' = [op |-> req.op, param |-> req.param, status |-> code, body |-> body,
             at |-> now]

\* POST /events/document: FastAPI validates the body against DocumentEvent,
\* then the handler runs its INSERT; an exception becomes a 500.
record_document_event(req) ==
    LET e == req.param
    IN  IF ~ ValidDocumentEvent(e)
        THEN /\ Respond(req, 422, [detail |-> "field required"])
             /\ UNCHANGED <<db, acked>>
        ELSE IF DocumentInsertOk(db, e)
        THEN /\ db' = InsertRow(db, "document_events", DocumentRow(e, now))
             /\ acked' = acked (+) SetToBag({req})
             /\ Respond(req, 200, [message |-> "Event recorded successfully"])
        ELSE /\ Respond(req, 500, [detail |-> "Conversion Error"])
             /\ UNCHANGED <<db, acked>>

\* POST /events/blockchain
record_blockchain_event(req) ==
    LET e == req.param
    IN  IF ~ ValidBlockchainEvent(e)
        THEN /\ Respond(req, 422, [detail |-> "field required"])
             /\ UNCHANGED <<db, acked>>
        ELSE IF BlockchainInsertOk(db, e)
        THEN /\ db' = InsertRow(db, "blockchain_events", BlockchainRow(e, now))
             /\ acked' = acked (+) SetToBag({req})
             /\ Respond(req, 200, [message |-> "Event recorded successfully"])
        ELSE /\ Respond(req, 500, [detail |-> "Conversion Error"])
             /\ UNCHANGED <<db, acked>>

\* A handler is a coroutine without an await: the event loop runs it from its
\* first statement to its return before it runs any other.
Serve(req) ==
    /\ boots > 0
    /\ CASE req.op = "record_document_event" -> record_document_event(req)
         [] req.op = "record_blockchain_event" -> record_blockchain_event(req)
         [] req.op = "get_user_analytics" ->
                /\ \E r \in get_user_analytics(db, req.param, now) :
                       Respond(req, r.status, r.body)
                /\ UNCHANGED <<db, acked>>
         [] req.op = "get_system_analytics" ->
                /\ Respond(req, get_system_analytics(db).status,
                           get_system_analytics(db).body)
                /\ UNCHANGED <<db, acked>>
         [] req.op = "health_check" ->
                /\ Respond(req, health_check.status, health_check.body)
                /\ UNCHANGED <<db, acked>>
    /\ UNCHANGED <<now, boots>>

----------------------------------------------------------------------------
(* Actions *)

EmptyDatabase == [t \in {} |-> <<>>]

NoExchange == [op |-> "none", param |-> NULL, status |-> 0, body |-> NULL, at |-> 0]

\* The process has connected to a fresh database file; startup has not run.
Init ==
    /\ db = EmptyDatabase
    /\ now = 0
    /\ pending = EmptyBag
    /\ acked = EmptyBag
    /\ last = NoExchange
    /\ boots = 0

\* The server has started on a fresh database file.
InitStarted ==
    /\ db = init_database(EmptyDatabase)
    /\ now = 0
    /\ pending = EmptyBag
    /\ acked = EmptyBag
    /\ last = NoExchange
    /\ boots = 1

\* startup_event: the process starts (again) on the same database file.
startup_event ==
    /\ boots < MaxBoots
    /\ db' = init_database(db)
    /\ boots' = boots + 1
    /\ pending' = EmptyBag
    /\ UNCHANGED <<now, acked, last>>

\* The wall clock moves on to a later instant of I.
Tick(I) ==
    /\ \E t \in I : t > now /\ now' = t
    /\ UNCHANGED <<db, pending, acked, last, boots>>

\* A client sends a request and waits for its response.
Call(req) ==
    /\ pending = EmptyBag
    /\ Serve(req)
    /\ UNCHANGED pending

\* A request arrives while others are still waiting for the event loop.
Receive(req, cap) ==
    /\ boots > 0
    /\ BagCardinality(pending) < MaxInflight
    /\ req.op = "record_document_event" =>
          Len(db["document_events"])
            + CopiesOf({r \in BagToSet(pending) : r.op = req.op}, pending) < cap
    /\ pending' = pending (+) SetToBag({req})
    /\ UNCHANGED <<db, now, acked, last, boots>>

\* The event loop runs the handler of one of the waiting requests.
Dispatch ==
    \E req \in BagToSet(pending) :
        /\ Serve(req)
        /\ pending' = pending (-) SetToBag({req})

PostDocument(S, cap) ==
    \E e \in S :
        /\ boots > 0
        /\ Len(db["document_events"]) < cap
        /\ Call(DocumentRequest(e))

PostBlockchain(S, cap) ==
    \E e \in S :
        /\ boots > 0
        /\ Len(db["blockchain_events"]) < cap
        /\ Call(BlockchainRequest(e))

GetUser(S) == \E u \in S : Call(UserRequest(u))

GetSystem == Call(SystemRequest)

GetHealth == Call(HealthRequest)

----------------------------------------------------------------------------
(* Inputs *)

BaseDocument ==
    [user_id |-> U1, document_id |-> NULL, event_type |-> "generation",
     document_type |-> NULL, ai_service |-> NULL, duration_seconds |-> <<>>,
     status |-> "success", metadata |-> NULL]

BaseBlockchain ==
    [user_id |-> U1, document_id |-> NULL, transaction_id |-> NULL,
     network |-> "ethereum", transaction_type |-> "anchor",
     duration_seconds |-> <<>>, status |-> "success", gas_used |-> <<>>,
     metadata |-> NULL]

\* Document events: well-formed ones, and the base event with one field missing,
\* empty or malformed.
DocEvents ==
    {BaseDocument,
     [BaseDocument EXCEPT !.status = "error"],
     [BaseDocument EXCEPT !.event_type = "status_change", !.status = "error"]}
    \cup {[BaseDocument EXCEPT !.user_id = x] : x \in {U2, NULL, "", Malformed}}
    \cup {[BaseDocument EXCEPT !.event_type = x] : x \in {NULL, ""}}
    \cup {[BaseDocument EXCEPT !.status = x] : x \in {NULL, ""}}
    \cup {[BaseDocument EXCEPT !.document_id = Malformed]}

ChainEvents ==
    {[BaseBlockchain EXCEPT !.user_id = x] : x \in {U1, U3, NULL, ""}}
    \cup {[BaseBlockchain EXCEPT !.network = x] : x \in {NULL, ""}}
    \cup {[BaseBlockchain EXCEPT !.transaction_type = x] : x \in {NULL, ""}}
    \cup {[BaseBlockchain EXCEPT !.status = NULL]}

QueryUsers == {U1, U2, U3, Malformed}

----------------------------------------------------------------------------
(* The service: startup, restarts, and clients that call one at a time *)

Next ==
    \/ startup_event
    \/ PostDocument(DocEvents, MaxDocRows)
    \/ PostBlockchain(ChainEvents, MaxChainRows)
    \/ GetUser(QueryUsers)
    \/ GetSystem
    \/ GetHealth

Spec == Init /\ [][Next]_vars

----------------------------------------------------------------------------
(* Concurrent clients: requests wait for the event loop, which runs their
   handlers one at a time in any order *)

ConcRequests ==
    {DocumentRequest(BaseDocument),
     DocumentRequest([BaseDocument EXCEPT !.status = "error"]),
     DocumentRequest([BaseDocument EXCEPT !.user_id = Malformed]),
     DocumentRequest([BaseDocument EXCEPT !.event_type = NULL]),
     UserRequest(U1)}

NextConc ==
    \/ \E req \in ConcRequests : Receive(req, MaxConcRows)
    \/ Dispatch

SpecConc == InitStarted /\ [][NextConc]_vars

----------------------------------------------------------------------------
(* The 30-day window: the clock visits the first instants and the instants
   around the far edge of the window *)

WindowInstants ==
    (0 .. EarlyTicks)
    \cup (Days(RECENT_DAYS - 1) .. Days(RECENT_DAYS + 1) + EarlyTicks)

WindowEvents ==
    {BaseDocument,
     [BaseDocument EXCEPT !.event_type = "status_change"],
     [BaseDocument EXCEPT !.user_id = U2]}

NextWindow ==
    \/ Tick(WindowInstants)
    \/ PostDocument(WindowEvents, MaxWindowRows)
    \/ GetUser({U1, U2})

SpecWindow == InitStarted /\ [][NextWindow]_vars

----------------------------------------------------------------------------
(* Document types *)

TypeEvents ==
    {[BaseDocument EXCEPT !.document_type = x] : x \in {NULL, "contract", "invoice"}}
    \cup {[BaseDocument EXCEPT !.user_id = U2, !.document_type = "contract"]}

NextTypes ==
    \/ PostDocument(TypeEvents, MaxTypeRows)
    \/ GetUser({U1, U2})

SpecTypes == InitStarted /\ [][NextTypes]_vars

----------------------------------------------------------------------------
(* Durations *)

AvgDocEvents ==
    {[BaseDocument EXCEPT !.duration_seconds = x] : x \in {<<>>, <<1>>, <<2>>}}
    \cup {[BaseDocument EXCEPT !.user_id = U2, !.duration_seconds = <<2>>]}

AvgChainEvents ==
    {[BaseBlockchain EXCEPT !.duration_seconds = x] : x \in {<<>>, <<1>>, <<4>>}}

NextAvg ==
    \/ PostDocument(AvgDocEvents, MaxAvgRows)
    \/ PostBlockchain(AvgChainEvents, MaxAvgRows)
    \/ GetUser({U1, U2})

SpecAvg == InitStarted /\ [][NextAvg]_vars

----------------------------------------------------------------------------
(* Vocabulary of the properties *)

Started == boots > 0

DocRows == db["document_events"]
ChainRows == db["blockchain_events"]

\* The last exchange is an answered user analytics query.
UserAnswered == last.op = "get_user_analytics" /\ last.status = 200

\* The acknowledged document inserts of user u.
AckedDocuments(u) ==
    {r \in BagToSet(acked) : r.op = "record_document_event" /\ r.param.user_id = u}

RowsOfUser(rows, u) == SelectSeq(rows, LAMBDA r : r.user_id = u)

\* The non-null durations of a row set, and their sum.
Timed(rows) == SelectSeq(rows, LAMBDA r : r.duration_seconds # <<>>)
TotalDuration(rows) ==
    SumSeq([i \in 1 .. Len(Timed(rows)) |-> Timed(rows)[i].duration_seconds[1]])

\* h hundredths is the exact value of sum / n.
ExactHundredths(h, sum, n) == h * n = 100 * sum

\* h hundredths is a hundredth nearest to sum / n.
NearestHundredths(h, sum, n) ==
    /\ 2 * (100 * sum - h * n) <= n
    /\ 2 * (h * n - 100 * sum) <= n

----------------------------------------------------------------------------
(* C1 *)

\* The user_id values stored in either event table.
UsersOfAnyTable ==
    {DocRows[i].user_id : i \in 1 .. Len(DocRows)}
    \cup {ChainRows[i].user_id : i \in 1 .. Len(ChainRows)}

(* C1: after any successful inserts, total_users of the system summary is the
   number of distinct user_id values found in document_events or
   blockchain_events; a user with blockchain events only is counted. *)
TotalUsersCountsAnyTable ==
    (last.op = "get_system_analytics" /\ last.status = 200)
        => last.body.total_users = <<Cardinality(UsersOfAnyTable)>>

----------------------------------------------------------------------------
(* C2 *)

\* The values a request gives to the required fields of its event.
RequiredFields(req) ==
    IF req.op = "record_document_event"
    THEN {req.param.user_id, req.param.event_type, req.param.status}
    ELSE {req.param.user_id, req.param.network, req.param.transaction_type,
          req.param.status}

IsInsert(op) == op \in {"record_document_event", "record_blockchain_event"}

(* C2: an insert request with a required field missing or empty is answered
   with an error (and so adds no row). *)
EmptyRequiredFieldRejected ==
    (IsInsert(last.op) /\ RequiredFields(last) \cap {NULL, ""} # {})
        => last.status # 200

----------------------------------------------------------------------------
(* C3 *)

RecentGroups == {last.body.recent_activity[i] : i \in DOMAIN last.body.recent_activity}

\* The rows of the queried user that fall in group g.
RowsInGroup(g) ==
    SelectSeq(DocRows, LAMBDA r : /\ r.user_id = last.param
                                  /\ r.event_type = g.event_type
                                  /\ DateTrunc(r.created_at) = g.date)

\* Row r is counted by the response: a returned group covers it.
Counted(r) ==
    \E g \in RecentGroups : g.event_type = r.event_type /\ g.date = DateTrunc(r.created_at)

(* C3, as claimed: recent_activity counts a document event of the user only if
   its created_at lies in the 30 days that end at the time of the query. *)
RecentActivityTrailingFromNow ==
    UserAnswered =>
        \A i \in 1 .. Len(DocRows) :
            (DocRows[i].user_id = last.param /\ Counted(DocRows[i]))
                => DocRows[i].created_at >= last.at - Days(RECENT_DAYS)

(* C3, amended: recent_activity counts a document event of the user exactly when
   its created_at is at or after the midnight that starts the calendar day 30
   days before the day of the query (provided fewer than 30 groups come back);
   each group's count is the number of the user's events of that type and day;
   an event 31 days old or older is never counted, one at most 29 days old is. *)
RecentActivityCalendarWindow ==
    UserAnswered =>
        /\ \A g \in RecentGroups :
              /\ g.count = Len(RowsInGroup(g))
              /\ g.count > 0
              /\ g.date >= CurrentDate(last.at) - Days(RECENT_DAYS)
        /\ \A i, j \in DOMAIN last.body.recent_activity :
              /\ i < j => last.body.recent_activity[i].date
                              >= last.body.recent_activity[j].date
              /\ i # j => last.body.recent_activity[i] # last.body.recent_activity[j]
        /\ \A i \in 1 .. Len(DocRows) :
              LET r == DocRows[i]
              IN  r.user_id = last.param =>
                    /\ Counted(r) => DateTrunc(r.created_at)
                                        >= CurrentDate(last.at) - Days(RECENT_DAYS)
                    /\ last.at - r.created_at >= Days(RECENT_DAYS + 1) => ~ Counted(r)
                    /\ Len(last.body.recent_activity) < RECENT_LIMIT =>
                          /\ r.created_at >= CurrentDate(last.at) - Days(RECENT_DAYS)
                                => Counted(r)
                          /\ last.at - r.created_at <= Days(RECENT_DAYS - 1)
                                => Counted(r)

\* An event between 30 and 31 days old is counted, one 31 days old is not.
RecentActivityWitness ==
    /\ UserAnswered
    /\ \E i, j \in 1 .. Len(DocRows) :
          /\ DocRows[i].user_id = last.param
          /\ DocRows[j].user_id = last.param
          /\ last.at - DocRows[i].created_at <= Days(RECENT_DAYS - 1)
          /\ Counted(DocRows[i])
          /\ last.at - DocRows[j].created_at >= Days(RECENT_DAYS + 1)
          /\ ~ Counted(DocRows[j])

----------------------------------------------------------------------------
(* C4: with requests handled in any interleaving, every insert answered 200 has
   added exactly one row: the rows of document_events are, with multiplicity,
   the acknowledged document events, and the total a user query reports is the
   number of that user's acknowledged inserts. *)
ConcurrentInsertsExact ==
    /\ Len(DocRows) = BagCardinality(acked)
    /\ \A r \in BagToSet(acked) :
          CopiesIn(r, acked)
              = Len(SelectSeq(DocRows,
                              LAMBDA x : DocumentRequest(
                                  [f \in DOMAIN r.param |-> x[f]]) = r))
    /\ UserAnswered =>
          last.body.documents.total = <<CopiesOf(AckedDocuments(last.param), acked)>>

\* Three inserts were in flight together and all were served; the total shows them.
ConcurrentInsertsWitness ==
    /\ pending = EmptyBag
    /\ BagCardinality(acked) = MaxConcRows
    /\ UserAnswered
    /\ last.body.documents.total = <<MaxConcRows>>

----------------------------------------------------------------------------
(* C5 *)

\* The order of the type names used in the model.
TypeRank(ty) == IF ty = "contract" THEN 1 ELSE 2

TypedRows(u) ==
    SelectSeq(DocRows, LAMBDA r : r.user_id = u /\ r.document_type # NULL)

\* One entry per distinct non-null document_type of the user, with its count.
DocumentTypesComplete ==
    LET dt == last.body.document_types
        rows == TypedRows(last.param)
    IN  /\ {dt[i].type : i \in DOMAIN dt} = {rows[i].document_type : i \in DOMAIN rows}
        /\ \A i, j \in DOMAIN dt : i # j => dt[i].type # dt[j].type
        /\ \A i \in DOMAIN dt :
              dt[i].count = Len(SelectSeq(rows, LAMBDA r : r.document_type = dt[i].type))

(* C5, as claimed: document_types lists one entry per distinct non-null
   document_type with its count, by count descending and, for equal counts, by
   document_type ascending. *)
DocumentTypesTiesAscending ==
    UserAnswered =>
        /\ DocumentTypesComplete
        /\ \A i, j \in DOMAIN last.body.document_types :
              i < j =>
                LET a == last.body.document_types[i]
                    b == last.body.document_types[j]
                IN  \/ a.count > b.count
                    \/ a.count = b.count /\ TypeRank(a.type) < TypeRank(b.type)

(* C5, amended: document_types lists one entry per distinct non-null
   document_type with its count, by count descending; entries with equal
   counts come in any order. *)
DocumentTypesByCountDescending ==
    UserAnswered =>
        /\ DocumentTypesComplete
        /\ \A i, j \in DOMAIN last.body.document_types :
              i < j => last.body.document_types[i].count
                          >= last.body.document_types[j].count

\* Three contracts and one invoice: the contracts come first.
DocumentTypesWitness ==
    /\ UserAnswered
    /\ Len(last.body.document_types) = 2
    /\ last.body.document_types[1] = [type |-> "contract", count |-> 3]
    /\ last.body.document_types[2] = [type |-> "invoice", count |-> 1]

----------------------------------------------------------------------------
(* C6 *)

NoEvents(u) == RowsOfUser(DocRows, u) = <<>> /\ RowsOfUser(ChainRows, u) = <<>>

UserFiguresAllZero ==
    /\ last.status = 200
    /\ last.body.documents =
          [total |-> <<0>>, successful |-> <<0>>, failed |-> <<0>>,
           avg_generation_time |-> <<0>>, status_changes |-> <<0>>]
    /\ last.body.blockchain =
          [total_transactions |-> <<0>>, successful_transactions |-> <<0>>,
           avg_transaction_time |-> <<0>>, total_gas_used |-> <<0>>]

SystemFiguresAllZero ==
    /\ last.status = 200
    /\ last.body =
          [total_users |-> <<0>>, total_documents |-> <<0>>,
           total_transactions |-> <<0>>,
           avg_document_generation_time |-> <<[num |-> 0, den |-> 1]>>,
           avg_blockchain_transaction_time |-> <<[num |-> 0, den |-> 1]>>]

EmptyStoreSystemZero ==
    (last.op = "get_system_analytics" /\ DocRows = <<>> /\ ChainRows = <<>>)
        => SystemFiguresAllZero

(* C6, as claimed: a user query for a user_id without events is answered, not
   refused, and every figure of documents and blockchain is 0; so is every
   figure of the system summary of an empty store. *)
NoEventsAllZero ==
    /\ (last.op = "get_user_analytics" /\ NoEvents(last.param)) => UserFiguresAllZero
    /\ EmptyStoreSystemZero

(* C6, amended: the same, for a user_id that is a well-formed UUID. *)
NoEventsAllZeroForUUID ==
    /\ (last.op = "get_user_analytics" /\ NoEvents(last.param)
            /\ last.param \in UUIDs) => UserFiguresAllZero
    /\ EmptyStoreSystemZero

\* A user without events is queried while another user has events.
NoEventsWitness ==
    /\ last.op = "get_user_analytics"
    /\ last.param \in UUIDs
    /\ NoEvents(last.param)
    /\ UserFiguresAllZero
    /\ DocRows # <<>>
    /\ ChainRows # <<>>

----------------------------------------------------------------------------
(* C7: the document summary of user U reports the number of U's acknowledged
   document inserts, of those with status success, of those with status error
   and of those with event_type status_change; other users' events do not
   count. *)
DocumentSummaryCounts ==
    UserAnswered =>
        LET mine == AckedDocuments(last.param)
        IN  /\ last.body.documents.total = <<CopiesOf(mine, acked)>>
            /\ last.body.documents.successful =
                  <<CopiesOf({r \in mine : r.param.status = "success"}, acked)>>
            /\ last.body.documents.failed =
                  <<CopiesOf({r \in mine : r.param.status = "error"}, acked)>>
            /\ last.body.documents.status_changes =
                  <<CopiesOf({r \in mine : r.param.event_type = "status_change"}, acked)>>

\* U1 has one failed status change; the other stored event is another user's.
DocumentSummaryWitness ==
    /\ UserAnswered
    /\ last.param = U1
    /\ last.body.documents.total = <<1>>
    /\ last.body.documents.successful = <<0>>
    /\ last.body.documents.failed = <<1>>
    /\ last.body.documents.status_changes = <<1>>
    /\ Len(DocRows) = 2

----------------------------------------------------------------------------
(* C8 *)

DocAverage == last.body.documents.avg_generation_time[1]
TxAverage == last.body.blockchain.avg_transaction_time[1]

\* The rows of the queried user that have a duration.
TimedDocs == Timed(RowsOfUser(DocRows, last.param))
TimedTxs == Timed(RowsOfUser(ChainRows, last.param))

(* C8, as claimed: the reported average is the sum of the user's non-null
   durations divided by the number of rows with a non-null duration, 0 when
   there is none. *)
AverageIsExactQuotient ==
    UserAnswered =>
        /\ TimedDocs = <<>> => DocAverage = 0
        /\ TimedDocs # <<>> =>
              ExactHundredths(DocAverage, TotalDuration(TimedDocs), Len(TimedDocs))
        /\ TimedTxs = <<>> => TxAverage = 0
        /\ TimedTxs # <<>> =>
              ExactHundredths(TxAverage, TotalDuration(TimedTxs), Len(TimedTxs))

(* C8, amended: the reported average is that quotient rounded to two decimal
   places, 0 when no row has a duration. *)
AverageIsRoundedQuotient ==
    UserAnswered =>
        /\ TimedDocs = <<>> => DocAverage = 0
        /\ TimedDocs # <<>> =>
              NearestHundredths(DocAverage, TotalDuration(TimedDocs), Len(TimedDocs))
        /\ TimedTxs = <<>> => TxAverage = 0
        /\ TimedTxs # <<>> =>
              NearestHundredths(TxAverage, TotalDuration(TimedTxs), Len(TimedTxs))

\* Blockchain events of 4 s and of no duration average 4.00; document events of
\* 1 s, 2 s and 2 s average 1.67.
AverageWitness ==
    /\ UserAnswered
    /\ Len(RowsOfUser(ChainRows, last.param)) = 2
    /\ Len(Timed(RowsOfUser(ChainRows, last.param))) = 1
    /\ last.body.blockchain.avg_transaction_time = <<400>>
    /\ last.body.documents.avg_generation_time = <<167>>

----------------------------------------------------------------------------
(* C9: init_database leaves every existing table and its rows as they are and
   creates the missing ones empty: after it the tables are the three tables. *)
InitDatabaseIdempotent ==
    [][boots' # boots =>
          /\ DOMAIN db' = Tables
          /\ \A t \in DOMAIN db : db'[t] = db[t]
          /\ \A t \in Tables \ DOMAIN db : db'[t] = <<>>
          /\ init_database(db') = db']_vars

\* The startup hook has run again on a database that holds rows.
InitDatabaseWitness ==
    /\ boots = MaxBoots
    /\ DocRows # <<>>
    /\ ChainRows # <<>>
    /\ pending = EmptyBag

----------------------------------------------------------------------------
(* C10: rows are never changed or removed; a step changes a table only by
   appending one row to it, which happens exactly when an insert into that
   table is answered 200; queries, health checks, refused inserts and startup
   leave the rows of all three tables as they are. *)
AppendOnly ==
    [][/\ \A t \in DOMAIN db :
             /\ t \in DOMAIN db'
             /\ Len(db'[t]) >= Len(db[t])
             /\ SubSeq(db'[t], 1, Len(db[t])) = db[t]
       /\ IF acked' # acked
          THEN /\ IsInsert(last'.op) /\ last'.status = 200
               /\ LET mine == IF last'.op = "record_document_event"
                              THEN "document_events" ELSE "blockchain_events"
                  IN  /\ Len(db'[mine]) = Len(db[mine]) + 1
                      /\ \A t \in DOMAIN db \ {mine} : db'[t] = db[t]
          ELSE \A t \in DOMAIN db : db'[t] = db[t]
       /\ (IsInsert(last'.op) /\ last'.status = 200 /\ boots' = boots)
            => acked' # acked]_vars

\* Both tables hold rows and the last request, a refused insert, changed nothing.
AppendOnlyWitness ==
    /\ Started
    /\ DocRows # <<>>
    /\ ChainRows # <<>>
    /\ last.op = "record_document_event"
    /\ last.status = 500

====
